---------------------------- MODULE Spec2Model ----------------------------
(***************************************************************************)
(* Model of the two batch jobs of rank-diffusion:                          *)
(*   build_fb_top2000_daily_ranked.py    (one window per input file)       *)
(*   build_fb_top20000_weekly_ranked.py  (one window per ISO week)         *)
(* A run enumerates the Parquet files of RAW_DIR, resolves a date per      *)
(* file, aggregates and ranks page totals per window through the query     *)
(* engine, appends the kept rows to the panel table and finally COPYs the  *)
(* table to the output file.                                               *)
(*                                                                         *)
(* Nullable values (SQL NULL, Python None) are sets with at most one       *)
(* element: {} is NULL/None, {v} is the value v.  Calendar dates are       *)
(* proleptic Gregorian ordinals, as datetime.date.toordinal() gives them.  *)
(***************************************************************************)
EXTENDS Integers, Sequences, FiniteSets, TLC

VARIABLES
    pipeline,     \* which script runs: "daily" or "weekly"
    input,        \* the set of *.parquet files of RAW_DIR
    pc,           \* position of the script
    daily_files,  \* sorted(RAW_DIR.glob("*.parquet"))
    idx,          \* loop index (idx / position in daily_files / widx)
    week_map,     \* weekly: week start -> list of files
    weeks_sorted, \* weekly: sorted(week_map.keys())
    panel,        \* the result table: one set of rows per executed INSERT
    windows,      \* history: per executed INSERT, the files scanned and the page totals
    out,          \* the output file
    copies,       \* number of COPY statements run
    error         \* the exception that ended the run, "" when none

vars == <<pipeline, input, pc, daily_files, idx, week_map, weeks_sorted,
          panel, windows, out, copies, error>>

-----------------------------------------------------------------------------
(* Bounds and scaled program constants *)

\* Largest number of files in RAW_DIR.
MaxFiles == 3

\* LIMIT 2000 of the daily query, scaled to the size of the page universe.
LIMIT_DAILY == 2

\* rn <= 100000 of the weekly query, scaled to the size of the page universe.
LIMIT_WEEKLY == 3

-----------------------------------------------------------------------------
(* Nullable values *)

Null == {}

Some(v) == {v}

Val(x) == CHOOSE v \in x : TRUE

\* SQL COALESCE(x, d)
Coalesce(x, d) == IF x = Null THEN d ELSE Val(x)

-----------------------------------------------------------------------------
(* Calendar dates: datetime.date *)

IsLeap(y) == (y % 4 = 0) /\ ((y % 100 # 0) \/ (y % 400 = 0))

DaysBeforeYear(y) == (y - 1) * 365 + ((y - 1) \div 4) - ((y - 1) \div 100) + ((y - 1) \div 400)

DaysInMonth(y, m) ==
    IF m = 2 THEN (IF IsLeap(y) THEN 29 ELSE 28)
    ELSE IF m \in {4, 6, 9, 11} THEN 30 ELSE 31

RECURSIVE DaysBeforeMonth(_, _)
DaysBeforeMonth(y, m) ==
    IF m = 1 THEN 0 ELSE DaysBeforeMonth(y, m - 1) + DaysInMonth(y, m - 1)

\* dt.date.fromisoformat("YYYY-MM-DD") as an ordinal
FromIso(y, m, d) == DaysBeforeYear(y) + DaysBeforeMonth(y, m) + d

\* dt.date.weekday(): Monday is 0, Sunday is 6
Weekday(d) == (d + 6) % 7

\* week_start_for(d) with d a date
WeekStartMondayFirst(d) == d - Weekday(d)

WeekStartSundayFirst(d) == d - ((Weekday(d) + 1) % 7)

week_start_for(d) == WeekStartMondayFirst(d)

-----------------------------------------------------------------------------
(* Input records and files *)

Fields == {"likeCount", "shareCount", "commentCount", "loveCount", "wowCount",
           "hahaCount", "sadCount", "angryCount", "thankfulCount", "careCount"}

\* One post: page ("account.name"), date, and the value of each interaction
\* column; `set` gives the non-zero values, `nulls` the columns that are NULL.
Post(page, date, set, nulls) ==
    [page |-> page, date |-> date,
     vals |-> [f \in Fields |->
                  IF f \in DOMAIN set THEN Some(set[f])
                  ELSE IF f \in nulls THEN Null ELSE Some(0)]]

\* A file name "<p>_<stamp>.parquet": p is the prefix ("a" is 1, "b" is 2),
\* stamp is an ISO date, or Null for a name without a date ("<p>_posts.parquet").
Name(pre, stamp) == [pre |-> pre, stamp |-> stamp]

File(name, schema, recs) == [name |-> name, schema |-> schema, recs |-> recs]

Mar03 == FromIso(2024, 3, 3)
Mar04 == FromIso(2024, 3, 4)
Mar05 == FromIso(2024, 3, 5)
Mar10 == FromIso(2024, 3, 10)
Mar11 == FromIso(2024, 3, 11)

\* File contents (schema, rows) the inputs are drawn from.
Day1 == [schema |-> Fields,
         recs |-> << Post("A", Some(Mar04), "likeCount" :> 10, {}),
                     Post("B", Some(Mar04), "shareCount" :> 5, {}) >>]

Day2 == [schema |-> Fields,
         recs |-> << Post("A", Some(Mar05), "commentCount" :> 3, {}),
                     Post("B", Some(Mar05), "likeCount" :> 4 @@ "careCount" :> 1, {}),
                     Post("C", Some(Mar05), "wowCount" :> 1, {}) >>]

\* Two posts of one page, explicit NULLs, a non-zero thankfulCount.
Nulls == [schema |-> Fields,
          recs |-> << Post("A", Some(Mar04), "likeCount" :> 1 @@ "thankfulCount" :> 2,
                           {"shareCount", "sadCount"}),
                      Post("A", Null, "angryCount" :> 1, Fields \ {"angryCount"}),
                      Post("D", Some(Mar04), "hahaCount" :> 2 @@ "loveCount" :> 1, {}) >>]

\* Four pages, ties at the top and at the bottom.
Ties == [schema |-> Fields,
         recs |-> << Post("A", Some(Mar04), "likeCount" :> 2, {}),
                     Post("B", Some(Mar04), "shareCount" :> 2, {}),
                     Post("C", Some(Mar04), "sadCount" :> 1, {}),
                     Post("D", Some(Mar04), "careCount" :> 1, {}) >>]

\* A file written before the thankfulCount column existed.
NoThankful == [schema |-> Fields \ {"thankfulCount"},
               recs |-> << Post("B", Some(Mar04), "likeCount" :> 3, {}),
                           Post("C", Some(Mar04), "loveCount" :> 3, {"wowCount"}) >>]

\* A file without the likeCount column.
NoLike == [schema |-> Fields \ {"likeCount"},
           recs |-> << Post("C", Some(Mar04), "shareCount" :> 2, {}) >>]

OnePost(d) == [schema |-> Fields, recs |-> << Post("A", d, "likeCount" :> 1, {}) >>]

Empty == [schema |-> Fields, recs |-> << >>]

RichContents == {Day1, Day2, Nulls, Ties, NoThankful, NoLike}

Stamps == {Mar03, Mar04, Mar10, Mar11}

\* The files RAW_DIR may hold: files with varied contents under a few names,
\* and files with one post under varied names.
Universe ==
    {File(Name(1, Some(Mar04)), c.schema, c.recs) : c \in RichContents}
    \cup {File(Name(2, Some(Mar04)), c.schema, c.recs) : c \in {Day2, Ties, NoThankful}}
    \cup {File(Name(1, Some(Mar10)), c.schema, c.recs) : c \in {Day2, Nulls, NoThankful}}
    \cup {File(Name(p, Some(d)), Fields, OnePost(Some(d)).recs) : p \in {1, 2}, d \in Stamps}
    \cup {File(Name(1, Null), c.schema, c.recs) : c \in {OnePost(Null), OnePost(Some(Mar05)), Empty}}
    \cup {File(Name(2, Null), c.schema, c.recs) : c \in {OnePost(Null), OnePost(Some(Mar11))}}

RECURSIVE Directories(_)
\* The sets of at most n files with distinct names.
Directories(n) ==
    IF n = 0 THEN {{}}
    ELSE LET smaller == Directories(n - 1)
         IN  smaller \cup
             UNION {{S \cup {f} : f \in {g \in Universe : \A h \in S : h.name # g.name}} :
                    S \in smaller}

-----------------------------------------------------------------------------
(* Input Enumerator: sorted(RAW_DIR.glob("*.parquet")) and date resolution *)

\* Path order of two names: prefix first, then the stamp as text.  ISO dates
\* compare as text the way they compare as dates, and a digit sorts before the
\* letter that starts a name without a date.
PathLess(a, b) ==
    \/ a.pre < b.pre
    \/ /\ a.pre = b.pre
       /\ \/ a.stamp # Null /\ b.stamp = Null
          \/ a.stamp # Null /\ b.stamp # Null /\ Val(a.stamp) < Val(b.stamp)

RECURSIVE Insert(_, _)
Insert(f, s) ==
    IF s = << >> THEN << f >>
    ELSE IF PathLess(f.name, Head(s).name) THEN << f >> \o s
    ELSE << Head(s) >> \o Insert(f, Tail(s))

RECURSIVE SortByPath(_)
SortByPath(s) == IF s = << >> THEN << >> ELSE Insert(Head(s), SortByPath(Tail(s)))

Unsorted(listing) == listing

\* sorted(listing) for a list of paths
Sorted(listing) == SortByPath(listing)

\* The orders in which glob may list the files of a directory.
Listings(dir) ==
    LET n == Cardinality(dir)
    IN  {s \in [1..n -> dir] : \A i, j \in 1..n : i # j => s[i] # s[j]}

\* SELECT MIN(CAST(date AS DATE)) FROM parquet_scan(pfile)
MinDate(pfile) ==
    LET ds == UNION {pfile.recs[i].date : i \in 1..Len(pfile.recs)}
    IN  IF ds = {} THEN Null ELSE Some(CHOOSE d \in ds : \A e \in ds : d <= e)

\* date_regex.search(pfile.name): the date of the name, None without one
RegexSearch(name) == name.stamp

\* file_date of one file: the date of the name, else the fallback scan
FileDate(pfile) ==
    IF RegexSearch(pfile.name) # Null THEN RegexSearch(pfile.name) ELSE MinDate(pfile)

-----------------------------------------------------------------------------
(* Interaction Aggregator *)

\* A column of a row under union_by_name: NULL where the row's file has no such column.
Column(file, rec, f) == IF f \in file.schema THEN rec.vals[f] ELSE Null

\* try(expr): NULL when evaluating expr raises; a column reference evaluates to itself.
Try(x) == x

InteractionsNoThankful(file, rec) ==
    Coalesce(Column(file, rec, "likeCount"), 0) +
    Coalesce(Column(file, rec, "shareCount"), 0) +
    Coalesce(Column(file, rec, "commentCount"), 0) +
    Coalesce(Column(file, rec, "loveCount"), 0) +
    Coalesce(Column(file, rec, "wowCount"), 0) +
    Coalesce(Column(file, rec, "hahaCount"), 0) +
    Coalesce(Column(file, rec, "sadCount"), 0) +
    Coalesce(Column(file, rec, "angryCount"), 0) +
    Coalesce(Column(file, rec, "careCount"), 0)

\* INTERACTIONS_EXPR for one row
Interactions(file, rec) ==
    Coalesce(Column(file, rec, "likeCount"), 0) +
    Coalesce(Column(file, rec, "shareCount"), 0) +
    Coalesce(Column(file, rec, "commentCount"), 0) +
    Coalesce(Column(file, rec, "loveCount"), 0) +
    Coalesce(Column(file, rec, "wowCount"), 0) +
    Coalesce(Column(file, rec, "hahaCount"), 0) +
    Coalesce(Column(file, rec, "sadCount"), 0) +
    Coalesce(Column(file, rec, "angryCount"), 0) +
    Coalesce(Try(Column(file, rec, "thankfulCount")), 0) +
    Coalesce(Column(file, rec, "careCount"), 0)

\* The binder resolves every column the query names against the union of the
\* scanned files' schemas; a name found in none of them is a Binder Error,
\* inside try() too (try() guards evaluation, not name resolution).
ScanBinds(files) ==
    \A f \in Fields : \E i \in 1..Len(files) : f \in files[i].schema

RECURSIVE SumRecs(_, _, _)
\* SUM(interactions) over the rows of one file that belong to page p
SumRecs(file, recs, p) ==
    IF recs = << >> THEN 0
    ELSE (IF Head(recs).page = p THEN Interactions(file, Head(recs)) ELSE 0)
         + SumRecs(file, Tail(recs), p)

RECURSIVE SumFiles(_, _)
SumFiles(files, p) ==
    IF files = << >> THEN 0
    ELSE SumRecs(Head(files), Head(files).recs, p) + SumFiles(Tail(files), p)

\* The distinct values of "account.name" in the scanned rows
ScannedPages(files) ==
    UNION {{files[i].recs[j].page : j \in 1..Len(files[i].recs)} : i \in 1..Len(files)}

\* CTEs p and page_tot / weekly: SELECT page, SUM(interactions) ... GROUP BY page
PageTotals(files) == [p \in ScannedPages(files) |-> SumFiles(files, p)]

-----------------------------------------------------------------------------
(* Ranker *)

SparseRank(totals, p) ==
    1 + Cardinality({q \in DOMAIN totals : totals[q] > totals[p]})

\* DENSE_RANK() OVER (ORDER BY metric_value DESC)
DenseRank(totals, p) ==
    1 + Cardinality({totals[q] : q \in {r \in DOMAIN totals : totals[r] > totals[p]}})

Orderings(S) ==
    LET n == Cardinality(S)
    IN  {s \in [1..n -> S] : \A i, j \in 1..n : i # j => s[i] # s[j]}

\* ROW_NUMBER() OVER (ORDER BY metric_value DESC): the row orders the engine
\* may number the pages in; tied pages come in any order.
RowNumberOrders(totals) ==
    {s \in Orderings(DOMAIN totals) :
        \A i, j \in 1..Len(s) : i < j => totals[s[i]] >= totals[s[j]]}

\* ORDER BY rank: the row orders by ascending dense rank; equal ranks in any order.
OrderByRank(totals) ==
    {s \in Orderings(DOMAIN totals) :
        \A i, j \in 1..Len(s) : i < j => DenseRank(totals, s[i]) <= DenseRank(totals, s[j])}

RankedRow(date, totals, p) ==
    [date |-> date, endpoint_id |-> p, metric_value |-> totals[p],
     rank |-> DenseRank(totals, p)]

\* daily: ... ORDER BY rank LIMIT 2000
KeptDaily(date, totals, order) ==
    {RankedRow(date, totals, order[i]) : i \in {k \in 1..Len(order) : k <= LIMIT_DAILY}}

KeptWeeklyByRank(date, totals, order) ==
    {RankedRow(date, totals, p) :
        p \in {q \in DOMAIN totals : DenseRank(totals, q) <= LIMIT_WEEKLY}}

\* weekly: ... WHERE rn <= 100000
KeptWeekly(date, totals, order) ==
    {RankedRow(date, totals, order[i]) : i \in {k \in 1..Len(order) : k <= LIMIT_WEEKLY}}

-----------------------------------------------------------------------------
(* The scripts *)

OutFile(state, rows) == [state |-> state, rows |-> rows]

Init ==
    /\ pipeline \in {"daily", "weekly"}
    /\ input \in Directories(MaxFiles)
    /\ pc = "start"
    /\ daily_files = << >>
    /\ idx = 0
    /\ week_map = << >>
    /\ weeks_sorted = << >>
    /\ panel = << >>
    /\ windows = << >>
    /\ out = OutFile("absent", << >>)
    /\ copies = 0
    /\ error = ""

\* An uncaught exception ends the script where it is raised.
Raise(exc) ==
    /\ pc' = "aborted"
    /\ error' = exc

\* daily_files = sorted(RAW_DIR.glob("*.parquet")); raise when there is none
Enumerate ==
    /\ pc = "start"
    /\ \E listing \in Listings(input) :
          IF Sorted(listing) = << >>
          THEN /\ Raise("FileNotFoundError")
               /\ UNCHANGED <<daily_files, idx>>
          ELSE /\ daily_files' = Sorted(listing)
               /\ idx' = 1
               /\ pc' = IF pipeline = "daily" THEN "loop" ELSE "group"
               /\ error' = error
    /\ UNCHANGED <<pipeline, input, week_map, weeks_sorted, panel, windows, out, copies>>

\* daily: one pass of the loop over daily_files: resolve the date, run the INSERT
DailyInsert ==
    /\ pipeline = "daily"
    /\ pc = "loop"
    /\ LET pfile     == daily_files[idx]
           file_date == FileDate(pfile)
           files     == << pfile >>
           totals    == PageTotals(files)
       IN  IF ~ScanBinds(files)
           THEN /\ Raise("BinderException")
                /\ UNCHANGED <<idx, panel, windows>>
           ELSE /\ \E order \in OrderByRank(totals) :
                      panel' = Append(panel, KeptDaily(file_date, totals, order))
                /\ windows' = Append(windows, [files |-> files, totals |-> totals])
                /\ idx' = idx + 1
                /\ pc' = IF idx = Len(daily_files) THEN "copy" ELSE "loop"
                /\ error' = error
    /\ UNCHANGED <<pipeline, input, daily_files, week_map, weeks_sorted, out, copies>>

\* week_map.setdefault(ws, []).append(pfile)
SetDefaultAppend(map, ws, pfile) ==
    IF ws \in DOMAIN map
    THEN [map EXCEPT ![ws] = Append(@, pfile)]
    ELSE [k \in DOMAIN map \cup {ws} |-> IF k = ws THEN << pfile >> ELSE map[k]]

RECURSIVE SortedKeys(_)
\* sorted(keys) for a set of dates
SortedKeys(keys) ==
    IF keys = {} THEN << >>
    ELSE LET least == CHOOSE k \in keys : \A other \in keys : k <= other
         IN  << least >> \o SortedKeys(keys \ {least})

\* weekly: one pass of the grouping loop; after the last file, weeks_sorted
\* is built and the result table created
WeeklyGroup ==
    /\ pipeline = "weekly"
    /\ pc = "group"
    /\ LET pfile     == daily_files[idx]
           file_date == FileDate(pfile)
       IN  IF file_date = Null
           THEN \* week_start_for(None): None has no weekday()
                /\ Raise("AttributeError")
                /\ UNCHANGED <<idx, week_map, weeks_sorted>>
           ELSE LET map == SetDefaultAppend(week_map, week_start_for(Val(file_date)), pfile)
                IN  /\ week_map' = map
                    /\ error' = error
                    /\ IF idx = Len(daily_files)
                       THEN /\ weeks_sorted' = SortedKeys(DOMAIN map)
                            /\ idx' = 1
                            /\ pc' = "loop"
                       ELSE /\ idx' = idx + 1
                            /\ UNCHANGED <<weeks_sorted, pc>>
    /\ UNCHANGED <<pipeline, input, daily_files, panel, windows, out, copies>>

\* weekly: one pass of the loop over weeks_sorted: run the INSERT of one week
WeeklyInsert ==
    /\ pipeline = "weekly"
    /\ pc = "loop"
    /\ LET ws     == weeks_sorted[idx]
           files  == week_map[ws]
           totals == PageTotals(files)
       IN  IF ~ScanBinds(files)
           THEN /\ Raise("BinderException")
                /\ UNCHANGED <<idx, panel, windows>>
           ELSE /\ \E order \in RowNumberOrders(totals) :
                      panel' = Append(panel, KeptWeekly(Some(ws), totals, order))
                /\ windows' = Append(windows, [files |-> files, totals |-> totals])
                /\ idx' = idx + 1
                /\ pc' = IF idx = Len(weeks_sorted) THEN "copy" ELSE "loop"
                /\ error' = error
    /\ UNCHANGED <<pipeline, input, daily_files, week_map, weeks_sorted, out, copies>>

\* The engine reports a fault of its own while running a window's query
\* (out of temporary space, out of memory): the execute call raises.
EngineFault ==
    /\ pc = "loop"
    /\ Raise("EngineError")
    /\ UNCHANGED <<pipeline, input, daily_files, idx, week_map, weeks_sorted,
                   panel, windows, out, copies>>

\* The final COPY ... TO out_path, then con.close()
Copy ==
    /\ pc = "copy"
    /\ out' = OutFile("written", panel)
    /\ copies' = copies + 1
    /\ pc' = "done"
    /\ UNCHANGED <<pipeline, input, daily_files, idx, week_map, weeks_sorted,
                   panel, windows, error>>

\* The final COPY fails while writing (disk full, volume gone).  The script
\* does not write to a temporary name and rename: what the failed statement
\* leaves at out_path is the engine's business, nothing or a truncated file.
CopyFail ==
    /\ pc = "copy"
    /\ \E left \in {"absent", "partial"} : out' = OutFile(left, << >>)
    /\ copies' = copies + 1
    /\ Raise("IOException")
    /\ UNCHANGED <<pipeline, input, daily_files, idx, week_map, weeks_sorted,
                   panel, windows>>

Next ==
    \/ Enumerate
    \/ DailyInsert
    \/ WeeklyGroup
    \/ WeeklyInsert
    \/ EngineFault
    \/ Copy
    \/ CopyFail

Spec == Init /\ [][Next]_vars

-----------------------------------------------------------------------------
(* Reference definitions the claims are stated with *)

RECURSIVE SumOver(_, _)
\* The sum of val(c) over the cells c of a finite set
SumOver(cells, files) ==
    IF cells = {} THEN 0
    ELSE LET c == CHOOSE x \in cells : TRUE
         IN  Val(files[c[1]].recs[c[2]].vals[c[3]]) + SumOver(cells \ {c}, files)

\* The interaction cells of page p in a list of files: (file, row, field)
\* with the field in the file's schema and its value not NULL.
CellsOf(files, p) ==
    {c \in UNION {{<<i, j, f>> : j \in 1..Len(files[i].recs), f \in Fields} :
                  i \in 1..Len(files)} :
        /\ files[c[1]].recs[c[2]].page = p
        /\ c[3] \in files[c[1]].schema
        /\ files[c[1]].recs[c[2]].vals[c[3]] # Null}

\* The exact total of page p over every record of the files
ExactTotal(files, p) == SumOver(CellsOf(files, p), files)

\* The page identifiers occurring in the files
PagesIn(files) ==
    {p \in {"A", "B", "C", "D"} :
        \E i \in 1..Len(files) : \E j \in 1..Len(files[i].recs) : files[i].recs[j].page = p}

\* The N of the running pipeline
TopN == IF pipeline = "daily" THEN LIMIT_DAILY ELSE LIMIT_WEEKLY

Min(a, b) == IF a <= b THEN a ELSE b

\* 2024-03-04 is a Monday
IsMonday(d) == (d - Mar04) % 7 = 0

\* d and e lie in the same Monday-to-Sunday week
SameWeek(d, e) ==
    \E m \in (d - 6)..d : IsMonday(m) /\ m <= e /\ e <= m + 6

-----------------------------------------------------------------------------
(* C1 *)

\* C1: in every window, every page occurring in the window's files has a
\* total, and that total, like the metric_value of every emitted row, is the
\* exact sum of the ten interaction fields (NULL or absent counted as 0) over
\* every record of the page in all the files of the window.
C1_ExactTotals ==
    \A i \in 1..Len(panel) :
        LET files  == windows[i].files
            totals == windows[i].totals
        IN  /\ DOMAIN totals = PagesIn(files)
            /\ \A p \in DOMAIN totals : totals[p] = ExactTotal(files, p)
            /\ \A r \in panel[i] : r.metric_value = ExactTotal(files, r.endpoint_id)

\* The weekly window of day 1 {A:10, B:5} and day 2 {A:3, B:5, C:1} is emitted.
C1_Witness ==
    /\ pipeline = "weekly"
    /\ \E i \in 1..Len(panel) :
          /\ Len(windows[i].files) = 2
          /\ {<<r.endpoint_id, r.metric_value>> : r \in panel[i]}
                = {<<"A", 13>>, <<"B", 10>>, <<"C", 1>>}

-----------------------------------------------------------------------------
(* C2 *)

\* C2: within every window of the panel the rank is dense: the largest
\* metric_value has rank 1, equal values have equal rank, a smaller value has
\* a larger rank, the next smaller value has the next rank, and the ranks
\* present are exactly 1..k.
C2_DenseRank ==
    \A i \in 1..Len(panel) :
        LET rows == panel[i]
        IN  /\ \A r \in rows :
                  (\A s \in rows : s.metric_value <= r.metric_value) => r.rank = 1
            /\ \A r, s \in rows :
                  /\ r.metric_value = s.metric_value => r.rank = s.rank
                  /\ r.metric_value > s.metric_value => r.rank < s.rank
                  /\ (/\ r.metric_value > s.metric_value
                      /\ ~ \E t \in rows : /\ t.metric_value < r.metric_value
                                           /\ t.metric_value > s.metric_value)
                        => s.rank = r.rank + 1
            /\ {r.rank : r \in rows} = 1..Cardinality({r.metric_value : r \in rows})

\* A window that was cut off, with two tied rows and a row of rank 2.
C2_Witness ==
    \E i \in 1..Len(panel) :
        /\ Cardinality(panel[i]) < Cardinality(DOMAIN windows[i].totals)
        /\ \E r, s \in panel[i] : r # s /\ r.metric_value = s.metric_value
        /\ \E r \in panel[i] : r.rank = 2

-----------------------------------------------------------------------------
(* C3 *)

-----------------------------------------------------------------------------
(* C4 *)

\* The files the grouping loop has placed so far
Placed ==
    {f \in input : \E ws \in DOMAIN week_map :
        \E k \in 1..Len(week_map[ws]) : week_map[ws][k] = f}

\* The number of places file f holds in week_map
PlacesOf(f) ==
    Cardinality({c \in (DOMAIN week_map) \X (1..Cardinality(input)) :
                    c[2] <= Len(week_map[c[1]]) /\ week_map[c[1]][c[2]] = f})

\* C4: in the weekly pipeline every window key is a Monday at most 6 days
\* before the resolved date of each of its files, two files share a window
\* exactly when their dates lie in the same Monday-to-Sunday week, and every
\* enumerated file is placed exactly once, under week_start_for of its date;
\* 2024-03-04 and 2024-03-10 have key 2024-03-04, 2024-03-11 has another.
C4_WeekWindows ==
    pipeline = "weekly" =>
        /\ \A ws \in DOMAIN week_map : \A k \in 1..Len(week_map[ws]) :
              LET d == Val(FileDate(week_map[ws][k]))
              IN  /\ IsMonday(ws)
                  /\ 0 <= d - ws /\ d - ws <= 6
                  /\ ws = week_start_for(d)
        /\ \A f, g \in Placed :
              (\E ws \in DOMAIN week_map :
                  /\ \E k \in 1..Len(week_map[ws]) : week_map[ws][k] = f
                  /\ \E k \in 1..Len(week_map[ws]) : week_map[ws][k] = g)
              <=> SameWeek(Val(FileDate(f)), Val(FileDate(g)))
        /\ \A f \in Placed : PlacesOf(f) = 1
        /\ pc = "group" => Placed = {daily_files[k] : k \in 1..(idx - 1)}
        /\ pc \in {"loop", "copy", "done"} => Placed = input
        /\ week_start_for(Mar04) = Mar04
        /\ week_start_for(Mar10) = Mar04
        /\ week_start_for(Mar11) = Mar11

\* Files dated 2024-03-04 and 2024-03-10 grouped under 2024-03-04, and a
\* file dated 2024-03-11 under another key.
C4_Witness ==
    /\ pipeline = "weekly"
    /\ pc = "loop"
    /\ Mar04 \in DOMAIN week_map
    /\ {Val(FileDate(week_map[Mar04][k])) : k \in 1..Len(week_map[Mar04])} = {Mar04, Mar10}
    /\ Mar11 \in DOMAIN week_map
    /\ Len(week_map[Mar11]) = 1

-----------------------------------------------------------------------------
(* C5 *)

\* The fields missing from the schema of some file of the scan
MissingSomewhere(files) ==
    {f \in Fields : \E i \in 1..Len(files) : f \notin files[i].schema}

\* C5: a field missing from the schema of a window's files, also from all of
\* them, does not abort the job: no run ends in the binder's error, and the
\* totals of a window with such a file are the sums of the fields present.
C5_MissingFieldTolerated ==
    /\ error # "BinderException"
    /\ \A i \in 1..Len(panel) :
          MissingSomewhere(windows[i].files) # {} =>
              \A r \in panel[i] :
                  r.metric_value = ExactTotal(windows[i].files, r.endpoint_id)

-----------------------------------------------------------------------------
(* C6 *)

\* C6: a file whose name has no date and whose content scan yields no date
\* aborts the job: no row with a null date is in the panel, and the output
\* file is not written when RAW_DIR holds such a file.
C6_UndatedFileAborts ==
    /\ \A i \in 1..Len(panel) : \A r \in panel[i] : r.date # Null
    /\ out.state = "written" => \A f \in input : FileDate(f) # Null

-----------------------------------------------------------------------------
(* C7 *)

\* The number of windows of the run: files (daily), weeks (weekly)
WindowCount == IF pipeline = "daily" THEN Len(daily_files) ELSE Len(weeks_sorted)

\* A fatal condition has occurred: an exception ended the script, or the
\* date of a file already processed could not be resolved.
FatalOccurred ==
    \/ pc = "aborted"
    \/ /\ pipeline = "daily"
       /\ \E k \in 1..Len(panel) : FileDate(daily_files[k]) = Null

\* C7: the output file is written at most once and only after every
\* window's rows are in the panel, and after a fatal error at any stage
\* nothing, complete or partial, is at the output path.
C7_AllOrNothing ==
    /\ copies <= 1
    /\ out.state = "written" => Len(panel) = WindowCount /\ out.rows = panel
    /\ FatalOccurred => out.state = "absent"

-----------------------------------------------------------------------------
(* C8 *)

RECURSIVE RowsWithDate(_, _)
\* The number of rows of the first n INSERTs that carry date d
RowsWithDate(d, n) ==
    IF n = 0 THEN 0
    ELSE Cardinality({r \in panel[n] : r.date = d}) + RowsWithDate(d, n - 1)

\* C8: in the daily panel no date is carried by more than N rows.
C8_RowsPerDate ==
    pipeline = "daily" =>
        \A i \in 1..Len(panel) : \A r \in panel[i] :
            RowsWithDate(r.date, Len(panel)) <= LIMIT_DAILY

-----------------------------------------------------------------------------
(* C9 *)

\* C9: the panel is chronological: a row appended by an earlier INSERT has
\* a date no later than a row appended by a later one, and an earlier date
\* when the two are weekly windows.  (Rows with a null date are left aside.)
C9_Chronological ==
    \A i, j \in 1..Len(panel) : i < j =>
        \A r \in panel[i] : \A t \in panel[j] :
            (r.date # Null /\ t.date # Null) =>
                IF pipeline = "weekly"
                THEN Val(r.date) < Val(t.date)
                ELSE Val(r.date) <= Val(t.date)

-----------------------------------------------------------------------------
(* C10 *)

\* The Monday of the week of d
MondayOf(d) == CHOOSE m \in (d - 6)..d : IsMonday(m)

RECURSIVE AnyOrder(_)
\* The files of a set in some order
AnyOrder(S) ==
    IF S = {} THEN << >>
    ELSE LET f == CHOOSE x \in S : TRUE
         IN  << f >> \o AnyOrder(S \ {f})

\* The windows of a run as the input alone determines them: the n-th file
\* in path order (daily), the files of the n-th week (weekly).
CanonCount ==
    IF pipeline = "daily" THEN Cardinality(input)
    ELSE Cardinality({MondayOf(Val(FileDate(f))) : f \in input})

CanonFiles(n) ==
    IF pipeline = "daily"
    THEN {f \in input : Cardinality({g \in input : PathLess(g.name, f.name)}) = n - 1}
    ELSE LET weekOf(f) == MondayOf(Val(FileDate(f)))
             weeks     == {weekOf(f) : f \in input}
         IN  {f \in input : Cardinality({w \in weeks : w < weekOf(f)}) = n - 1}

CanonDate(n) ==
    LET f == CHOOSE g \in CanonFiles(n) : TRUE
    IN  IF pipeline = "daily" THEN FileDate(f) ELSE Some(MondayOf(Val(FileDate(f))))

\* The exact page totals of a set of files
CanonTotals(fileset) ==
    LET files == AnyOrder(fileset)
    IN  [p \in PagesIn(files) |-> ExactTotal(files, p)]

\* Pages that every top-N selection keeps / that none keeps
SurelyKept(tot) ==
    {p \in DOMAIN tot :
        Cardinality({q \in DOMAIN tot \ {p} : tot[q] >= tot[p]}) < TopN}

SurelyDropped(tot) ==
    {p \in DOMAIN tot : Cardinality({q \in DOMAIN tot : tot[q] > tot[p]}) >= TopN}

CanonRow(date, tot, p) ==
    [date |-> date, endpoint_id |-> p, metric_value |-> tot[p],
     rank |-> 1 + Cardinality({tot[q] : q \in {x \in DOMAIN tot : tot[x] > tot[p]}})]

\* The pages at positions N and N+1 are tied
BoundaryTie(tot) == DOMAIN tot # SurelyKept(tot) \cup SurelyDropped(tot)

\* C10: the panel is a function of the input: the n-th INSERT scans the
\* files of the n-th window and appends the rows the input determines, in
\* whatever order glob listed the files and the engine ordered tied pages;
\* only which of the pages tied across position N are kept is left open
\* (their number is not).  A finished run has written exactly that panel.
\* A weekly run over a file without any date emits nothing.
C10_Deterministic ==
    IF pipeline = "weekly" /\ \E f \in input : FileDate(f) = Null
    THEN Len(panel) = 0 /\ out.state = "absent"
    ELSE
    /\ Len(panel) <= CanonCount
    /\ \A n \in 1..Len(panel) :
          LET fileset == CanonFiles(n)
              tot     == CanonTotals(fileset)
              date    == CanonDate(n)
              kept    == SurelyKept(tot)
              dropped == SurelyDropped(tot)
          IN  /\ {windows[n].files[k] : k \in 1..Len(windows[n].files)} = fileset
              /\ Len(windows[n].files) = Cardinality(fileset)
              /\ {CanonRow(date, tot, p) : p \in kept} \subseteq panel[n]
              /\ panel[n] \subseteq {CanonRow(date, tot, p) : p \in DOMAIN tot \ dropped}
              /\ Cardinality(panel[n]) = Min(TopN, Cardinality(DOMAIN tot))
              /\ ~BoundaryTie(tot) => panel[n] = {CanonRow(date, tot, p) : p \in kept}
    /\ pc = "done" => Len(panel) = CanonCount /\ out = OutFile("written", panel)

\* A finished run of two windows or more, one of them with a tie across position N.
C10_Witness ==
    /\ pc = "done"
    /\ Len(panel) >= 2
    /\ \E n \in 1..Len(panel) : BoundaryTie(CanonTotals(CanonFiles(n)))

=============================================================================
